---- MODULE Spec2Model ----
(***************************************************************************)
(* A model of collection-js: the Set built on the keyed Map (src/src/Set.js),*)
(* the Iterable traversal protocol and the array-backed List.               *)
(***************************************************************************)
EXTENDS Integers, Sequences, FiniteSets

VARIABLES
    sets,      \* the two Sets under test, "A" and "B"
    setRes,    \* the Set returned by the last call, if it was union / intersect / diff
    setLast,   \* the last Set call: operation, receiver, argument, return value
    heap,      \* the items arrays, by address
    recv,      \* the collection the Iterable methods are called on: kind and items address
    copy,      \* the collection last returned by reverse / clone / toList / toArray
    last,      \* the last Iterable or List call: operation, receiver and arguments
    res,       \* what that call returned
    frame      \* the removeIf call in progress: its position and local variables

setVars == <<sets, setRes, setLast>>
iterVars == <<heap, recv, copy, last, res, frame>>
vars == <<sets, setRes, setLast, heap, recv, copy, last, res, frame>>

(***************************************************************************)
(* Bounds                                                                  *)
(***************************************************************************)
MaxItem == 3
MaxLen == 3
MaxVal == 2

SetItems == 1..MaxItem
SetNames == {"A", "B"}

(***************************************************************************)
(* JavaScript values.  A value carries its type tag; strings are sequences *)
(* of UTF-16 code units, objects have an identity and one property, "key". *)
(***************************************************************************)
Num(n) == [t |-> "num", v |-> n]

Str(s) == [t |-> "str", v |-> s]

Null == [t |-> "null", v |-> 0]

Undefined == [t |-> "undef", v |-> 0]

Obj(id, prop) == [t |-> "obj", v |-> [id |-> id, key |-> prop]]

EmptyString == Str(<<>>)

\* Collection.NOT_MAPPED = {} : an object of its own, without properties.
NOT_MAPPED == Obj(0, Undefined)

\* String({}), the primitive an ordinary object converts to: "[object Object]".
ObjectString == Str(<<91, 111, 98, 106, 101, 99, 116, 32, 79, 98, 106, 101, 99, 116, 93>>)

\* x === y.  Objects are equal when they are the same object.
StrictEquals(x, y) ==
    /\ x.t = y.t
    /\ IF x.t = "obj" THEN x.v.id = y.v.id ELSE x.v = y.v

\* x == y, for the values above (no string here spells a number but "").
LooseEquals(x, y) ==
    LET nullish == {"null", "undef"}
        strNum(a, b) == a.t = "str" /\ b.t = "num" /\ a.v = <<>> /\ b.v = 0
        strObj(a, b) == a.t = "str" /\ b.t = "obj" /\ a = ObjectString
    IN IF x.t = y.t THEN StrictEquals(x, y)
       ELSE IF x.t \in nullish \/ y.t \in nullish
            THEN x.t \in nullish /\ y.t \in nullish
       ELSE strNum(x, y) \/ strNum(y, x) \/ strObj(x, y) \/ strObj(y, x)

\* if (x) ...
Truthy(x) ==
    CASE x.t = "num" -> x.v # 0
      [] x.t = "str" -> x.v # <<>>
      [] x.t = "obj" -> TRUE
      [] OTHER -> FALSE

\* s < t for strings: by code units, a proper prefix first.
RECURSIVE StringLess(_, _)
StringLess(s, t) ==
    IF t = <<>> THEN FALSE
    ELSE IF s = <<>> THEN TRUE
    ELSE IF Head(s) # Head(t) THEN Head(s) < Head(t)
    ELSE StringLess(Tail(s), Tail(t))

\* x < y for two numbers or two strings; a number and a string of letters
\* compare as NaN, which is false.
Less(x, y) ==
    CASE x.t = "num" /\ y.t = "num" -> x.v < y.v
      [] x.t = "str" /\ y.t = "str" -> StringLess(x.v, y.v)
      [] OTHER -> FALSE

\* String.prototype.toUpperCase on the letters a-z.
toUpperCase(x) ==
    Str([i \in 1..Len(x.v) |-> IF x.v[i] \in 97..122 THEN x.v[i] - 32 ELSE x.v[i]])

(***************************************************************************)
(* Arrays.  A JavaScript array is a sequence; index i of the array is      *)
(* element i + 1 of the sequence.                                          *)
(***************************************************************************)
Min(a, b) == IF a < b THEN a ELSE b

Max(a, b) == IF a > b THEN a ELSE b

\* array[index], undefined outside the array.
At(array, index) ==
    IF index >= 0 /\ index < Len(array) THEN array[index + 1] ELSE Undefined

\* A relative index as Array.prototype.slice and splice resolve it.
Relative(index, len) == IF index < 0 THEN Max(len + index, 0) ELSE Min(index, len)

\* array.slice(start, end)
ArraySlice(array, start, end) ==
    SubSeq(array, Relative(start, Len(array)) + 1, Relative(end, Len(array)))

\* array.slice(start)
ArraySliceFrom(array, start) == ArraySlice(array, start, Len(array))

\* array.splice(start, deleteCount) and array.splice(start, 0, item): the array left.
ArraySpliceOut(array, start, deleteCount) ==
    LET from == Relative(start, Len(array))
        n    == Min(Max(deleteCount, 0), Len(array) - from)
    IN SubSeq(array, 1, from) \o SubSeq(array, from + n + 1, Len(array))

ArraySpliceIn(array, start, item) ==
    LET from == Relative(start, Len(array))
    IN SubSeq(array, 1, from) \o <<item>> \o SubSeq(array, from + 1, Len(array))

ArrayReverse(array) == [i \in 1..Len(array) |-> array[Len(array) + 1 - i]]

\* cloneArray: a new array with the same elements.
cloneArray(array) == [i \in 1..Len(array) |-> array[i]]

(***************************************************************************)
(* Iterable (the traversal protocol).  A collection is its concrete kind   *)
(* and its items array.                                                    *)
(***************************************************************************)
Kinds == {"List", "SimpleIterable"}

\* List.fromArray -> List.prototype._init: the List keeps a copy of the array.
List_fromArray(array) == [kind |-> "List", items |-> cloneArray(array)]

\* this.constructor.fromArray(array); SimpleIterable wraps the array as it is.
Iterable__createNew(self, array) ==
    IF self.kind = "List" THEN List_fromArray(array)
    ELSE [kind |-> self.kind, items |-> array]

\* The callbacks, predicates and operators the callers pass in.
MapCallbacks == {"negate", "omitOdd", "omitAll", "objectString"}

Predicates == {"isEven", "lessThan2"}

\* func(item, extraParam)
Invoke(func, item, extraParam) ==
    CASE func = "negate"       -> Num(0 - item.v)
      [] func = "omitOdd"      -> IF item.v % 2 = 0 THEN Num(0 - item.v) ELSE NOT_MAPPED
      [] func = "omitAll"      -> NOT_MAPPED
      [] func = "objectString" -> ObjectString
      [] func = "isEven"       -> item.t = "num" /\ item.v % 2 = 0
      [] func = "lessThan2"    -> item.t = "num" /\ item.v < 2
      [] func = "notEven"      -> ~(item.t = "num" /\ item.v % 2 = 0)
      [] func = "sum"          -> Num(item.v + extraParam.v)

Iterable__invoke(self, func, forIndex, extraParam) ==
    Invoke(func, At(self.items, forIndex), extraParam)

Iterable_size(self) == Len(self.items)

\* The items in the order the callback of each() receives them.
Iterable_each(self) ==
    LET RECURSIVE loop(_, _)
        loop(i, seen) ==
            IF i >= Len(self.items) THEN [seen |-> seen]
            ELSE loop(i + 1, Append(seen, At(self.items, i)))
    IN loop(0, <<>>)

Iterable_map(self, callback) ==
    LET RECURSIVE loop(_, _)
        loop(i, result) ==
            IF i >= Len(self.items) THEN result
            ELSE LET mapped == Iterable__invoke(self, callback, i, Undefined)
                 IN loop(i + 1, IF ~LooseEquals(mapped, NOT_MAPPED)
                                THEN Append(result, mapped) ELSE result)
    IN Iterable__createNew(self, loop(0, <<>>))

Iterable_filter(self, predicate) ==
    LET RECURSIVE loop(_, _)
        loop(i, result) ==
            IF i >= Len(self.items) THEN result
            ELSE loop(i + 1, IF Iterable__invoke(self, predicate, i, Undefined)
                             THEN Append(result, At(self.items, i)) ELSE result)
    IN Iterable__createNew(self, loop(0, <<>>))

Iterable_fold(self, initialValue, operator) ==
    LET RECURSIVE loop(_, _)
        loop(i, result) ==
            IF i >= Len(self.items) THEN result
            ELSE loop(i + 1, Iterable__invoke(self, operator, i, result))
    IN loop(0, initialValue)

\* The pair returned: [yes, no].
Iterable_partition(self, predicate) ==
    LET RECURSIVE loop(_, _, _)
        loop(i, yes, no) ==
            IF i >= Len(self.items)
            THEN [yes |-> Iterable__createNew(self, yes), no |-> Iterable__createNew(self, no)]
            ELSE IF Iterable__invoke(self, predicate, i, Undefined)
                 THEN loop(i + 1, Append(yes, At(self.items, i)), no)
                 ELSE loop(i + 1, yes, Append(no, At(self.items, i)))
    IN loop(0, <<>>, <<>>)

Iterable_grouped_fullOnly(self, size) ==
    LET length == Len(self.items)
        RECURSIVE loop(_, _, _)
        loop(i, groups, current) ==
            IF i >= length THEN groups
            ELSE LET pushed == Append(current, At(self.items, i))
                 IN IF Len(pushed) = size
                    THEN loop(i + 1, Append(groups, Iterable__createNew(self, pushed)), <<>>)
                    ELSE loop(i + 1, groups, pushed)
    IN List_fromArray(loop(0, <<>>, <<>>))

Iterable_grouped(self, size) ==
    LET length == Len(self.items)
        RECURSIVE loop(_, _, _)
        loop(i, groups, current) ==
            IF i >= length THEN groups
            ELSE LET pushed == Append(current, At(self.items, i))
                 IN IF Len(pushed) = size \/ i = length - 1
                    THEN loop(i + 1, Append(groups, Iterable__createNew(self, pushed)), <<>>)
                    ELSE loop(i + 1, groups, pushed)
    IN List_fromArray(loop(0, <<>>, <<>>))

Iterable_drop(self, n) ==
    LET m == Min(n, Len(self.items))
    IN Iterable__createNew(self, ArraySliceFrom(self.items, m))

Iterable_dropRight(self, n) ==
    LET m == Min(n, Len(self.items))
    IN Iterable__createNew(self, ArraySlice(self.items, 0, Len(self.items) - m))

Iterable_dropWhile(self, predicate) ==
    LET RECURSIVE loop(_, _)
        loop(result, index) ==
            IF Len(result) # 0 /\ Iterable__invoke(self, predicate, index, Undefined)
            THEN loop(Tail(result), index + 1)
            ELSE result
    IN Iterable__createNew(self, loop(ArraySliceFrom(self.items, 0), 0))

Iterable_take(self, n) ==
    LET m == Min(n, Len(self.items))
    IN Iterable__createNew(self, ArraySlice(self.items, 0, m))

Iterable_takeRight(self, n) ==
    LET m == Min(n, Len(self.items))
    IN Iterable__createNew(self, ArraySliceFrom(self.items, 0 - m))

Iterable_takeWhile(self, predicate) ==
    LET RECURSIVE loop(_, _)
        loop(i, result) ==
            IF i >= Len(self.items) THEN result
            ELSE IF Iterable__invoke(self, predicate, i, Undefined)
                 THEN loop(i + 1, Append(result, At(self.items, i)))
                 ELSE result
    IN Iterable__createNew(self, loop(0, <<>>))

Iterable_slice(self, start, end) ==
    Iterable__createNew(self, ArraySlice(self.items, start, end))

(***************************************************************************)
(* Array.prototype.sort with a comparator that orders the elements         *)
(* consistently: each element goes before the first one it compares below. *)
(***************************************************************************)
\* getPluckFunction('key'): item['key'], undefined on a primitive.
Pluck(item) == IF item.t = "obj" THEN item.v.key ELSE Undefined

\* (a < b) ? -1 : (a > b) ? 1 : 0
List__defaultSortFunction(a, b) == IF Less(a, b) THEN -1 ELSE IF Less(b, a) THEN 1 ELSE 0

\* The comparators: sortFunction is the one sorted() builds over its
\* {index, value} records, the others are what callers pass to List.sort
\* and List.insert; byKey is
\*   function(a, b) { return a.key < b.key ? -1 : a.key > b.key ? 1 : 0; }
Compare(f, a, b) ==
    CASE f = "sortFunction" ->
            IF ~StrictEquals(a.value, b.value)
            THEN (IF Less(a.value, b.value) THEN -1 ELSE 1)
            ELSE (IF a.index < b.index THEN -1 ELSE 1)
      [] f = "ascending"  -> a.v - b.v
      [] f = "descending" -> b.v - a.v
      [] f = "_defaultSortFunction" -> List__defaultSortFunction(a, b)
      [] f = "byKey" -> List__defaultSortFunction(Pluck(a), Pluck(b))

RECURSIVE SortedInsert(_, _, _)
SortedInsert(sorted, e, f) ==
    IF sorted = <<>> THEN <<e>>
    ELSE IF Compare(f, e, Head(sorted)) < 0 THEN <<e>> \o sorted
    ELSE <<Head(sorted)>> \o SortedInsert(Tail(sorted), e, f)

RECURSIVE ArraySort(_, _)
ArraySort(array, f) ==
    IF array = <<>> THEN <<>>
    ELSE SortedInsert(ArraySort(SubSeq(array, 1, Len(array) - 1), f),
                      array[Len(array)], f)

(***************************************************************************)
(* Iterable.prototype.sorted                                               *)
(***************************************************************************)
DefaultOptions == [by |-> "none", localeCompare |-> FALSE, ignoreCase |-> FALSE, reverse |-> FALSE]

\* The sort value of an item: by(item) when by is given and the item is
\* truthy, the item itself otherwise.
SortValue(item, o) ==
    IF o.by # "none" /\ Truthy(item) THEN Pluck(item) ELSE item

IsMissing(value) ==
    StrictEquals(value, Null) \/ StrictEquals(value, Undefined) \/ StrictEquals(value, EmptyString)

\* The first loop of sorted(): the {index, value} records to sort and the
\* values set aside as missing.
SortedScan(self, o) ==
    LET RECURSIVE loop(_, _, _)
        loop(i, mapped, missingData) ==
            IF i >= Len(self.items) THEN [mapped |-> mapped, missingData |-> missingData]
            ELSE LET item == SortValue(At(self.items, i), o)
                 IN IF IsMissing(item)
                    THEN loop(i + 1, mapped, Append(missingData, item))
                    ELSE loop(i + 1,
                              Append(mapped, [index |-> i,
                                              value |-> IF o.ignoreCase THEN toUpperCase(item) ELSE item]),
                              missingData)
    IN loop(0, <<>>, <<>>)

\* The inputs sorted() orders in one way only: the sort values that are not
\* missing are all numbers or all strings (strings when ignoreCase is set), so
\* that toUpperCase exists and sortFunction compares them consistently.
Sortable(self, o) ==
    LET values == {SortValue(self.items[i], o) : i \in 1..Len(self.items)}
        present == {v \in values : ~IsMissing(v)}
    IN /\ \A v \in present : v.t \in {"num", "str"}
       /\ \A v, w \in present : v.t = w.t
       /\ o.ignoreCase => \A v \in present : v.t = "str"

Iterable_sorted(self, o) ==
    LET scan   == SortedScan(self, o)
        mapped == ArraySort(scan.mapped, "sortFunction")
        result == [i \in 1..Len(mapped) |-> At(self.items, mapped[i].index)]
                     \o scan.missingData
    IN Iterable__createNew(self, IF o.reverse THEN ArrayReverse(result) ELSE result)

(***************************************************************************)
(* The heap.  An object refers to its items array by address, so that two  *)
(* objects may or may not share one array.                                 *)
(***************************************************************************)
Addrs == 1..3

EmptyHeap == [a \in Addrs |-> <<>>]

\* The address of a new array, given the addresses in use.
NewArray(used) == CHOOSE a \in Addrs \ used : \A b \in Addrs \ used : a <= b

\* The heap once every array that is not in live has been collected.
Collect(h, live) == [a \in Addrs |-> IF a \in live THEN h[a] ELSE <<>>]

\* The collection an object is at this moment.
Deref(h, o) == [kind |-> o.kind, items |-> h[o.items]]

\* List.fromArray(array) for an array on the heap.
List_fromArrayRef(h, array, used) ==
    LET b == NewArray(used)
    IN [heap |-> [h EXCEPT ![b] = cloneArray(h[array])],
        obj  |-> [kind |-> "List", items |-> b]]

\* _createNew(array) for an array on the heap.
Iterable__createNewRef(h, self, array) ==
    IF self.kind = "List" THEN List_fromArrayRef(h, array, {self.items, array})
    ELSE [heap |-> h, obj |-> [kind |-> self.kind, items |-> array]]

Iterable_reverse_inPlace(h, self) ==
    Iterable__createNewRef([h EXCEPT ![self.items] = ArrayReverse(h[self.items])],
                           self, self.items)

Iterable_reverse(h, self) ==
    LET a == NewArray({self.items})
    IN Iterable__createNewRef(
           [h EXCEPT ![a] = ArrayReverse(ArraySliceFrom(h[self.items], 0))], self, a)

Iterable_clone(h, self) ==
    LET a == NewArray({self.items})
    IN Iterable__createNewRef(
           [h EXCEPT ![a] = ArraySliceFrom(h[self.items], 0)], self, a)

Iterable_toList(h, self) == List_fromArrayRef(h, self.items, {self.items})

Iterable_toArray(h, self) ==
    LET a == NewArray({self.items})
    IN [heap |-> [h EXCEPT ![a] = cloneArray(h[self.items])],
        obj  |-> [kind |-> "Array", items |-> a]]

(***************************************************************************)
(* List: the operations that change the items array.  Each gives the array *)
(* afterwards, the value returned and whether an Error was thrown.         *)
(***************************************************************************)
Returned(items, ret) == [items |-> items, ret |-> ret, error |-> FALSE]

Thrown(items) == [items |-> items, ret |-> Undefined, error |-> TRUE]

\* TRUE when _assertRange(index) throws.
List__assertRange(items, index) == index < 0 \/ index > Len(items)

List_add(items, item) == Returned(Append(items, item), Undefined)

\* addAt with the splice placed before the range check.
List_addAt_spliceFirst(items, item, index) ==
    IF List__assertRange(items, index) THEN Thrown(ArraySpliceIn(items, index, item))
    ELSE Returned(ArraySpliceIn(items, index, item), Undefined)

List_addAt(items, item, index) ==
    IF List__assertRange(items, index) THEN Thrown(items)
    ELSE Returned(ArraySpliceIn(items, index, item), Undefined)

\* items[index] = item; index is at most the length here.
ArrayAssign(items, index, item) ==
    IF index < Len(items) THEN [items EXCEPT ![index + 1] = item]
    ELSE Append(items, item)

List_update(items, index, item) ==
    IF List__assertRange(items, index) THEN Thrown(items)
    ELSE LET previousItem == At(items, index)
         IN IF ~StrictEquals(previousItem, item)
            THEN Returned(ArrayAssign(items, index, item), Undefined)
            ELSE Returned(items, Undefined)

List_removeAt(items, index) ==
    LET from == Relative(index, Len(items))
    IN Returned(ArraySpliceOut(items, index, 1), At(items, from))

List_removeAll(items) ==
    IF Len(items) > 0 THEN Returned(ArraySpliceOut(items, 0, Len(items)), Undefined)
    ELSE Returned(items, Undefined)

\* ret is the array of removed items.
List_removeIf(items, predicate) ==
    LET length == Len(items)
        RECURSIVE loop(_, _, _)
        loop(i, array, removed) ==
            IF i >= length THEN Returned(array, removed)
            ELSE IF Invoke(predicate, At(array, i), Undefined)
                 THEN loop(i, ArraySpliceOut(array, i, 1), Append(removed, At(array, i)))
                 ELSE loop(i + 1, array, removed)
    IN loop(0, items, <<>>)

List_sort(items, sortFunction) == Returned(ArraySort(items, sortFunction), Undefined)

\* The binary search of insert with the tie going right: low = mid + 1 also
\* when sortFunction returns 0.
BinarySearch_tieRight(items, item, sortFunction) ==
    LET RECURSIVE loop(_, _)
        loop(low, high) ==
            IF low < high
            THEN LET mid == (low + high) \div 2
                 IN IF Compare(sortFunction, item, At(items, mid)) >= 0
                    THEN loop(mid + 1, high)
                    ELSE loop(low, mid)
            ELSE low
    IN loop(0, Len(items))

\* The while loop of insert: the index the item is added at.
BinarySearch(items, item, sortFunction) ==
    LET RECURSIVE loop(_, _)
        loop(low, high) ==
            IF low < high
            THEN LET mid == (low + high) \div 2
                 IN IF Compare(sortFunction, item, At(items, mid)) > 0
                    THEN loop(mid + 1, high)
                    ELSE loop(low, mid)
            ELSE low
    IN loop(0, Len(items))

\* insert without the search: the item is added at index 0.
List_insert_first(items, item, sortFunction) == List_addAt(items, item, 0)

\* sortFunction is "none" when the caller passes no sort function.
List_insert(items, item, sortFunction) ==
    LET f == IF sortFunction = "none" THEN "_defaultSortFunction" ELSE sortFunction
    IN List_addAt(items, item, BinarySearch(items, item, f))

(***************************************************************************)
(* Keyed Map.  A Map owns its key function and a sequence of entries; two  *)
(* keys are the same key when the key function maps them to the same id.   *)
(***************************************************************************)
KeyFunctions == {"identity", "parity"}

DefaultKeyFunction == "identity"

\* The id a key function derives from a key.
getId(kf, key) == IF kf = "parity" THEN key % 2 ELSE key

Map_withKey(kf) == [getId |-> kf, entries |-> <<>>]

\* Position of the entry whose key has the same id as key, 0 when there is none.
Map_indexOf(m, key) ==
    LET hits == {i \in 1..Len(m.entries) :
                    getId(m.getId, m.entries[i].key) = getId(m.getId, key)}
    IN IF hits = {} THEN 0 ELSE CHOOSE i \in hits : \A j \in hits : i <= j

Map_containsKey(m, key) == Map_indexOf(m, key) # 0

Map_put(m, key, value) ==
    LET i == Map_indexOf(m, key)
    IN IF i # 0
       THEN [m EXCEPT !.entries[i].value = value]
       ELSE [m EXCEPT !.entries = Append(@, [key |-> key, value |-> value])]

NotFound == 0

\* Removes the entry of key; ret is its value, or NotFound.
Map_remove(m, key) ==
    LET i == Map_indexOf(m, key)
    IN IF i = 0
       THEN [map |-> m, ret |-> NotFound]
       ELSE [map |-> [m EXCEPT !.entries =
                         SubSeq(@, 1, i - 1) \o SubSeq(@, i + 1, Len(@))],
             ret |-> m.entries[i].value]

Map_removeAll(m) == [m EXCEPT !.entries = <<>>]

Map_keys(m) == [i \in 1..Len(m.entries) |-> m.entries[i].key]

Map_size(m) == Len(m.entries)

(***************************************************************************)
(* Set (src/src/Set.js)                                                    *)
(***************************************************************************)
Set_init(kf) == [map |-> Map_withKey(kf)]

Set_contains(s, item) == Map_containsKey(s.map, item)

Set_add_unchecked(s, item) ==
    [set |-> [s EXCEPT !.map = Map_put(@, item, 1)], ret |-> TRUE]

Set_add(s, item) ==
    IF Set_contains(s, item)
    THEN [set |-> s, ret |-> FALSE]
    ELSE [set |-> [s EXCEPT !.map = Map_put(@, item, 1)], ret |-> TRUE]

Set_remove(s, item) ==
    LET r == Map_remove(s.map, item)
    IN [set |-> [s EXCEPT !.map = r.map], ret |-> (r.ret = 1)]

Set_removeAll(s) == [s EXCEPT !.map = Map_removeAll(@)]

Set_size(s) == Map_size(s.map)

\* The items in the order each() visits them.
Set_items(s) == Map_keys(s.map)

Members(s) == {Set_items(s)[i] : i \in 1..Set_size(s)}

\* result.add(item) for every item of seq, in order.
RECURSIVE AddEach(_, _)
AddEach(result, seq) ==
    IF seq = <<>> THEN result
    ELSE AddEach(Set_add(result, Head(seq)).set, Tail(seq))

Set_union(this, that) ==
    AddEach(AddEach(Set_init(DefaultKeyFunction), Set_items(this)), Set_items(that))

\* bind(that.contains, that) and not(contains), as functions of the item.
contains(that) == [item \in SetItems |-> Set_contains(that, item)]

not(predicate) == [item \in SetItems |-> ~predicate[item]]

Set__filter(this, predicate) ==
    AddEach(Set_init(DefaultKeyFunction),
            SelectSeq(Set_items(this), LAMBDA item : predicate[item]))

Set_intersect_swapped(this, that) == Set__filter(that, contains(this))

Set_intersect(this, that) == Set__filter(this, contains(that))

Set_diff(this, that) == Set__filter(this, not(contains(that)))

(***************************************************************************)
(* What the variables hold while no call has been made on them.            *)
(***************************************************************************)
NoObject == [kind |-> "none", items |-> 0]

NoCall == [op |-> "none", who |-> "recv", n |-> 0, m |-> 0, fn |-> "none", item |-> Undefined]

NoResult == Undefined

\* No removeIf call in progress.  seen is the set of values the predicate has
\* been called with, entry the items of the List when the call was made.
NoFrame ==
    [pc |-> "idle", predicate |-> "none", i |-> 0, length |-> 0,
     removed |-> <<>>, seen |-> {}, entry |-> <<>>]

Call(op, who, n, m, fn, item) ==
    [op |-> op, who |-> who, n |-> n, m |-> m, fn |-> fn, item |-> item]

IterIdle ==
    /\ heap = EmptyHeap
    /\ recv = [kind |-> "List", items |-> 1]
    /\ copy = NoObject
    /\ last = NoCall
    /\ res = NoResult
    /\ frame = NoFrame

(***************************************************************************)
(* The Set state machine: two Sets, each built with its own key function,  *)
(* mutated by add / remove / removeAll and combined by union / intersect / *)
(* diff.                                                                   *)
(***************************************************************************)
NoSetCall == [op |-> "none", this |-> "A", that |-> "A", item |-> 0, ret |-> FALSE]

\* setRes holds the value returned by the last call only; a call that returns
\* no Set leaves it empty.
NoSetResult == Set_init(DefaultKeyFunction)

SetInit ==
    /\ sets \in [SetNames -> {Set_init(kf) : kf \in KeyFunctions}]
    /\ setRes = NoSetResult
    /\ setLast = NoSetCall
    /\ IterIdle

DoSetAdd ==
    \E w \in SetNames, x \in SetItems :
        LET r == Set_add(sets[w], x)
        IN /\ sets' = [sets EXCEPT ![w] = r.set]
           /\ setLast' = [op |-> "add", this |-> w, that |-> w, item |-> x, ret |-> r.ret]
           /\ setRes' = NoSetResult
           /\ UNCHANGED iterVars

DoSetRemove ==
    \E w \in SetNames, x \in SetItems :
        LET r == Set_remove(sets[w], x)
        IN /\ sets' = [sets EXCEPT ![w] = r.set]
           /\ setLast' = [op |-> "remove", this |-> w, that |-> w, item |-> x, ret |-> r.ret]
           /\ setRes' = NoSetResult
           /\ UNCHANGED iterVars

DoSetRemoveAll ==
    \E w \in SetNames :
        /\ sets' = [sets EXCEPT ![w] = Set_removeAll(sets[w])]
        /\ setLast' = [op |-> "removeAll", this |-> w, that |-> w, item |-> 0, ret |-> TRUE]
        /\ setRes' = NoSetResult
        /\ UNCHANGED iterVars

DoSetUnion ==
    \E w \in SetNames, o \in SetNames :
        /\ setRes' = Set_union(sets[w], sets[o])
        /\ setLast' = [op |-> "union", this |-> w, that |-> o, item |-> 0, ret |-> TRUE]
        /\ UNCHANGED <<sets, iterVars>>

DoSetIntersect ==
    \E w \in SetNames, o \in SetNames :
        /\ setRes' = Set_intersect(sets[w], sets[o])
        /\ setLast' = [op |-> "intersect", this |-> w, that |-> o, item |-> 0, ret |-> TRUE]
        /\ UNCHANGED <<sets, iterVars>>

DoSetDiff ==
    \E w \in SetNames, o \in SetNames :
        /\ setRes' = Set_diff(sets[w], sets[o])
        /\ setLast' = [op |-> "diff", this |-> w, that |-> o, item |-> 0, ret |-> TRUE]
        /\ UNCHANGED <<sets, iterVars>>

SetNext ==
    \/ DoSetAdd
    \/ DoSetRemove
    \/ DoSetRemoveAll
    \/ DoSetUnion
    \/ DoSetIntersect
    \/ DoSetDiff

SpecSet == SetInit /\ [][SetNext]_vars

(***************************************************************************)
(* Properties of Set                                                       *)
(***************************************************************************)
KeyOf(s, item) == getId(s.map.getId, item)

HoldsKeyOf(s, item) == \E m \in Members(s) : KeyOf(s, m) = KeyOf(s, item)

NoEqualKeys(s) ==
    \A i, j \in 1..Set_size(s) :
        KeyOf(s, Set_items(s)[i]) = KeyOf(s, Set_items(s)[j]) => i = j

\* C1: add(x) returns false and changes nothing exactly when the Set already
\* holds a member whose derived key equals x's; otherwise it returns true, x
\* becomes a member and size() grows by exactly 1.  In every reachable state
\* no two members have equal derived keys, and adding x a second time returns
\* false with the Set unchanged.
AddStep ==
    setLast'.op = "add" =>
        LET S  == sets[setLast'.this]
            S2 == sets'[setLast'.this]
            x  == setLast'.item
        IN /\ setLast'.ret = ~HoldsKeyOf(S, x)
           /\ HoldsKeyOf(S, x) => S2 = S
           /\ ~HoldsKeyOf(S, x) =>
                 /\ Set_size(S2) = Set_size(S) + 1
                 /\ Members(S2) = Members(S) \cup {x}
           /\ Set_add(S2, x).ret = FALSE
           /\ Set_add(S2, x).set = S2

C1_AddRejectsEqualKeys ==
    /\ [](\A w \in SetNames : NoEqualKeys(sets[w]) /\ Set_size(sets[w]) = Cardinality(Members(sets[w])))
    /\ [][AddStep]_vars

\* An add was rejected although the item itself is not a member: an item with
\* an equal derived key is.
C1_Witness ==
    /\ setLast.op = "add"
    /\ setLast.ret = FALSE
    /\ setLast.item \notin Members(sets[setLast.this])
    /\ Set_size(sets[setLast.this]) >= 1

\* C2: A.union(B) is a new Set that uses A's key function: it holds every item
\* of A and of B with items of equal key (under A's key function) collapsed to
\* one member, a later add(x) is rejected whenever x's key under A's key
\* function equals a member's, and A and B are left unchanged.
UnionStep ==
    setLast'.op = "union" =>
        LET A == sets[setLast'.this]
            B == sets[setLast'.that]
            R == setRes'
        IN /\ Members(R) \subseteq Members(A) \cup Members(B)
           /\ \A x \in Members(A) \cup Members(B) :
                 \E m \in Members(R) : KeyOf(A, m) = KeyOf(A, x)
           /\ \A i, j \in 1..Set_size(R) :
                 KeyOf(A, Set_items(R)[i]) = KeyOf(A, Set_items(R)[j]) => i = j
           /\ \A x \in SetItems :
                 (\E m \in Members(R) : KeyOf(A, m) = KeyOf(A, x))
                     => Set_add(R, x).ret = FALSE
           /\ sets' = sets

C2_UnionUsesReceiverKey == [][UnionStep]_vars

\* C3: A.intersect(B) holds exactly the items x of A with B.contains(x), and
\* A.diff(B) exactly the items x of A without; membership is decided by B's key
\* function, the candidates are A's items, and neither A nor B is modified.
FilterStep ==
    setLast'.op \in {"intersect", "diff"} =>
        LET A == sets[setLast'.this]
            B == sets[setLast'.that]
            R == setRes'
            keep(x) == IF setLast'.op = "intersect"
                       THEN HoldsKeyOf(B, x) ELSE ~HoldsKeyOf(B, x)
        IN /\ Members(R) = {x \in Members(A) : keep(x)}
           /\ Set_size(R) = Cardinality(Members(R))
           /\ sets' = sets

C3_IntersectDiffByOtherKey == [][FilterStep]_vars

\* A.intersect(B) with different key functions, a result that is a proper,
\* non-empty part of A and differs from B.intersect(A).
C3_Witness ==
    /\ setLast.op = "intersect"
    /\ sets[setLast.this].map.getId # sets[setLast.that].map.getId
    /\ Set_size(setRes) >= 1
    /\ Set_size(setRes) < Set_size(sets[setLast.this])
    /\ Members(Set_intersect(sets[setLast.that], sets[setLast.this])) # Members(setRes)

(***************************************************************************)
(* The Iterable state machine: a receiver of either kind, built from any   *)
(* array of numbers, and the traversal methods called on it.               *)
(***************************************************************************)
BoundedSeq(S, n) == UNION {[1..k -> S] : k \in 0..n}

ItemValues == {Num(i) : i \in 1..MaxVal}

\* The arguments the calls are made with.
Counts == (0 - 2)..(MaxLen + 2)

Bounds == (0 - 1)..MaxLen

SortSwitches == {[DefaultOptions EXCEPT !.reverse = r] : r \in BOOLEAN}

SetIdle ==
    /\ sets = [w \in SetNames |-> Set_init(DefaultKeyFunction)]
    /\ setRes = NoSetResult
    /\ setLast = NoSetCall

IterInit ==
    /\ SetIdle
    /\ \E array \in BoundedSeq(ItemValues, MaxLen) : heap = [EmptyHeap EXCEPT ![1] = array]
    /\ recv \in {[kind |-> k, items |-> 1] : k \in Kinds}
    /\ copy = NoObject
    /\ last = NoCall
    /\ res = NoResult
    /\ frame = NoFrame

\* The receiver as a collection.
Self == Deref(heap, recv)

DoEach ==
    /\ last' = Call("each", "recv", 0, 0, "none", Undefined)
    /\ res' = Iterable_each(Self)
    /\ UNCHANGED <<heap, recv, copy, setVars, frame>>

DoMap(F) ==
    \E fn \in F :
        /\ last' = Call("map", "recv", 0, 0, fn, Undefined)
        /\ res' = Iterable_map(Self, fn)
        /\ UNCHANGED <<heap, recv, copy, setVars, frame>>

DoFilter(P) ==
    \E fn \in P :
        /\ last' = Call("filter", "recv", 0, 0, fn, Undefined)
        /\ res' = Iterable_filter(Self, fn)
        /\ UNCHANGED <<heap, recv, copy, setVars, frame>>

DoFold ==
    /\ last' = Call("fold", "recv", 0, 0, "sum", Num(100))
    /\ res' = Iterable_fold(Self, Num(100), "sum")
    /\ UNCHANGED <<heap, recv, copy, setVars, frame>>

DoPartition(P) ==
    \E fn \in P :
        /\ last' = Call("partition", "recv", 0, 0, fn, Undefined)
        /\ res' = Iterable_partition(Self, fn)
        /\ UNCHANGED <<heap, recv, copy, setVars, frame>>

DoGrouped(N) ==
    \E size \in N :
        /\ last' = Call("grouped", "recv", size, 0, "none", Undefined)
        /\ res' = Iterable_grouped(Self, size)
        /\ UNCHANGED <<heap, recv, copy, setVars, frame>>

DoDrop(N) ==
    \E n \in N :
        /\ last' = Call("drop", "recv", n, 0, "none", Undefined)
        /\ res' = Iterable_drop(Self, n)
        /\ UNCHANGED <<heap, recv, copy, setVars, frame>>

DoDropRight(N) ==
    \E n \in N :
        /\ last' = Call("dropRight", "recv", n, 0, "none", Undefined)
        /\ res' = Iterable_dropRight(Self, n)
        /\ UNCHANGED <<heap, recv, copy, setVars, frame>>

DoDropWhile(P) ==
    \E fn \in P :
        /\ last' = Call("dropWhile", "recv", 0, 0, fn, Undefined)
        /\ res' = Iterable_dropWhile(Self, fn)
        /\ UNCHANGED <<heap, recv, copy, setVars, frame>>

DoTake(N) ==
    \E n \in N :
        /\ last' = Call("take", "recv", n, 0, "none", Undefined)
        /\ res' = Iterable_take(Self, n)
        /\ UNCHANGED <<heap, recv, copy, setVars, frame>>

DoTakeRight(N) ==
    \E n \in N :
        /\ last' = Call("takeRight", "recv", n, 0, "none", Undefined)
        /\ res' = Iterable_takeRight(Self, n)
        /\ UNCHANGED <<heap, recv, copy, setVars, frame>>

DoTakeWhile(P) ==
    \E fn \in P :
        /\ last' = Call("takeWhile", "recv", 0, 0, fn, Undefined)
        /\ res' = Iterable_takeWhile(Self, fn)
        /\ UNCHANGED <<heap, recv, copy, setVars, frame>>

DoSlice(N) ==
    \E start \in N, end \in N :
        /\ last' = Call("slice", "recv", start, end, "none", Undefined)
        /\ res' = Iterable_slice(Self, start, end)
        /\ UNCHANGED <<heap, recv, copy, setVars, frame>>

DoSorted(O) ==
    \E o \in O :
        /\ Sortable(Self, o)
        /\ last' = Call("sorted", "recv", 0, 0, "none", o)
        /\ res' = Iterable_sorted(Self, o)
        /\ UNCHANGED <<heap, recv, copy, setVars, frame>>

DoReverse ==
    LET r == Iterable_reverse(heap, recv)
    IN /\ last' = Call("reverse", "recv", 0, 0, "none", Undefined)
       /\ res' = NoResult
       /\ copy' = r.obj
       /\ heap' = Collect(r.heap, {recv.items, r.obj.items})
       /\ UNCHANGED <<recv, setVars, frame>>

DoClone ==
    LET r == Iterable_clone(heap, recv)
    IN /\ last' = Call("clone", "recv", 0, 0, "none", Undefined)
       /\ res' = NoResult
       /\ copy' = r.obj
       /\ heap' = Collect(r.heap, {recv.items, r.obj.items})
       /\ UNCHANGED <<recv, setVars, frame>>

DoToList ==
    LET r == Iterable_toList(heap, recv)
    IN /\ last' = Call("toList", "recv", 0, 0, "none", Undefined)
       /\ res' = NoResult
       /\ copy' = r.obj
       /\ heap' = Collect(r.heap, {recv.items, r.obj.items})
       /\ UNCHANGED <<recv, setVars, frame>>

DoToArray ==
    LET r == Iterable_toArray(heap, recv)
    IN /\ last' = Call("toArray", "recv", 0, 0, "none", Undefined)
       /\ res' = NoResult
       /\ copy' = r.obj
       /\ heap' = Collect(r.heap, {recv.items, r.obj.items})
       /\ UNCHANGED <<recv, setVars, frame>>

(***************************************************************************)
(* The List methods that change the items array, called on the receiver or *)
(* on the collection last returned.                                        *)
(***************************************************************************)
Object(w) == IF w = "recv" THEN recv ELSE copy

Outcome(r) == [ret |-> r.ret, error |-> r.error]

DoAdd(W, I) ==
    \E w \in W, item \in I :
        LET o == Object(w)
            r == List_add(heap[o.items], item)
        IN /\ o.kind = "List"
           /\ Len(r.items) <= MaxLen
           /\ heap' = [heap EXCEPT ![o.items] = r.items]
           /\ last' = Call("add", w, 0, 0, "none", item)
           /\ res' = Outcome(r)
           /\ UNCHANGED <<recv, copy, setVars, frame>>

DoAddAt(W, I, N) ==
    \E w \in W, item \in I, index \in N :
        LET o == Object(w)
            r == List_addAt(heap[o.items], item, index)
        IN /\ o.kind = "List"
           /\ Len(r.items) <= MaxLen
           /\ heap' = [heap EXCEPT ![o.items] = r.items]
           /\ last' = Call("addAt", w, index, 0, "none", item)
           /\ res' = Outcome(r)
           /\ UNCHANGED <<recv, copy, setVars, frame>>

DoUpdate(W, I, N) ==
    \E w \in W, item \in I, index \in N :
        LET o == Object(w)
            r == List_update(heap[o.items], index, item)
        IN /\ o.kind = "List"
           /\ Len(r.items) <= MaxLen
           /\ heap' = [heap EXCEPT ![o.items] = r.items]
           /\ last' = Call("update", w, index, 0, "none", item)
           /\ res' = Outcome(r)
           /\ UNCHANGED <<recv, copy, setVars, frame>>

DoRemoveAt(W, N) ==
    \E w \in W, index \in N :
        LET o == Object(w)
            r == List_removeAt(heap[o.items], index)
        IN /\ o.kind = "List"
           /\ heap' = [heap EXCEPT ![o.items] = r.items]
           /\ last' = Call("removeAt", w, index, 0, "none", Undefined)
           /\ res' = Outcome(r)
           /\ UNCHANGED <<recv, copy, setVars, frame>>

DoRemoveIf(W, P) ==
    \E w \in W, fn \in P :
        LET o == Object(w)
            r == List_removeIf(heap[o.items], fn)
        IN /\ o.kind = "List"
           /\ heap' = [heap EXCEPT ![o.items] = r.items]
           /\ last' = Call("removeIf", w, 0, 0, fn, Undefined)
           /\ res' = [ret |-> List_fromArray(r.ret), error |-> r.error]
           /\ UNCHANGED <<recv, copy, setVars, frame>>

DoRemoveAll(W) ==
    \E w \in W :
        LET o == Object(w)
            r == List_removeAll(heap[o.items])
        IN /\ o.kind = "List"
           /\ heap' = [heap EXCEPT ![o.items] = r.items]
           /\ last' = Call("removeAll", w, 0, 0, "none", Undefined)
           /\ res' = Outcome(r)
           /\ UNCHANGED <<recv, copy, setVars, frame>>

DoSort(W, F) ==
    \E w \in W, fn \in F :
        LET o == Object(w)
            r == List_sort(heap[o.items], fn)
        IN /\ o.kind = "List"
           /\ heap' = [heap EXCEPT ![o.items] = r.items]
           /\ last' = Call("sort", w, 0, 0, fn, Undefined)
           /\ res' = Outcome(r)
           /\ UNCHANGED <<recv, copy, setVars, frame>>

IterNext ==
    \/ DoEach
    \/ DoMap(MapCallbacks)
    \/ DoFilter(Predicates)
    \/ DoFold
    \/ DoPartition(Predicates)
    \/ DoGrouped(Counts)
    \/ DoDrop(Counts)
    \/ DoDropRight(Counts)
    \/ DoDropWhile(Predicates)
    \/ DoTake(Counts)
    \/ DoTakeRight(Counts)
    \/ DoTakeWhile(Predicates)
    \/ DoSlice(Bounds)
    \/ DoSorted(SortSwitches)
    \/ DoReverse
    \/ DoClone
    \/ DoToList
    \/ DoToArray

Spec == IterInit /\ [][IterNext]_vars

(***************************************************************************)
(* The List state machine: one List and the methods that change it.        *)
(***************************************************************************)
Indexes == (0 - 1)..(MaxLen + 1)

SortFunctions == {"ascending", "descending"}

ListInit ==
    /\ SetIdle
    /\ \E array \in BoundedSeq(ItemValues, MaxLen) : heap = [EmptyHeap EXCEPT ![1] = array]
    /\ recv = [kind |-> "List", items |-> 1]
    /\ copy = NoObject
    /\ last = NoCall
    /\ res = NoResult
    /\ frame = NoFrame

ListNext ==
    \/ DoAdd({"recv"}, ItemValues)
    \/ DoAddAt({"recv"}, ItemValues, Indexes)
    \/ DoUpdate({"recv"}, ItemValues, Indexes)
    \/ DoRemoveAt({"recv"}, Indexes)
    \/ DoRemoveIf({"recv"}, Predicates)
    \/ DoRemoveAll({"recv"})
    \/ DoSort({"recv"}, SortFunctions)

SpecList == ListInit /\ [][ListNext]_vars

(***************************************************************************)
(* The sorted List: a List that starts empty and grows by insert, with the *)
(* default sort function or with one comparing the items by their key.     *)
(***************************************************************************)
\* Numbers, undefined, and for every key two objects carrying it.
InsertItems ==
    ItemValues \cup {Undefined}
        \cup {Obj(2 * k - 1, Num(k)) : k \in 1..MaxVal}
        \cup {Obj(2 * k, Num(k)) : k \in 1..MaxVal}

InsertFunctions == {"none", "byKey"}

DoInsert(W, I, F) ==
    \E w \in W, item \in I, fn \in F :
        LET o == Object(w)
            r == List_insert(heap[o.items], item, fn)
        IN /\ o.kind = "List"
           /\ Len(r.items) <= MaxLen
           /\ heap' = [heap EXCEPT ![o.items] = r.items]
           /\ last' = Call("insert", w, 0, 0, fn, item)
           /\ res' = Outcome(r)
           /\ UNCHANGED <<recv, copy, setVars, frame>>

InsertInit ==
    /\ SetIdle
    /\ heap = [EmptyHeap EXCEPT ![1] = <<>>]
    /\ recv = [kind |-> "List", items |-> 1]
    /\ copy = NoObject
    /\ last = NoCall
    /\ res = NoResult
    /\ frame = NoFrame

InsertNext == DoInsert({"recv"}, InsertItems, InsertFunctions)

SpecInsert == InsertInit /\ [][InsertNext]_vars

(***************************************************************************)
(* removeIf, one statement of its for loop at a time: the call sets up i,  *)
(* length and removed, the body tests the item at i, i++ follows, and the  *)
(* call returns once i has reached length.                                 *)
(***************************************************************************)
\* notEven is function(n) { return n % 2 !== 0; }, true of undefined.
RemovePredicates == Predicates \cup {"notEven"}

\* The removed array is followed up to this many entries.
MaxRemoved == MaxLen + 2

ArrayPush(array, item) == IF Len(array) < MaxRemoved THEN Append(array, item) ELSE array

CallRemoveIf(P) ==
    \E fn \in P :
        /\ frame.pc \in {"idle", "done"}
        /\ frame' = [pc |-> "loop", predicate |-> fn, i |-> 0,
                     length |-> Len(heap[recv.items]), removed |-> <<>>,
                     seen |-> {}, entry |-> heap[recv.items]]
        /\ last' = Call("removeIf", "recv", 0, 0, fn, Undefined)
        /\ res' = NoResult
        /\ UNCHANGED <<heap, recv, copy, setVars>>

\* The body of the loop: on a match the item is pushed and spliced out and
\* i-- makes up for the i++ that follows.
StepRemoveIf ==
    /\ frame.pc = "loop"
    /\ frame.i < frame.length
    /\ LET items == heap[recv.items]
           item == At(items, frame.i)
       IN IF Invoke(frame.predicate, item, Undefined)
          THEN /\ heap' = [heap EXCEPT ![recv.items] = ArraySpliceOut(items, frame.i, 1)]
               /\ frame' = [frame EXCEPT !.pc = "i++", !.i = @ - 1,
                                          !.removed = ArrayPush(@, item),
                                          !.seen = @ \cup {item}]
          ELSE /\ heap' = heap
               /\ frame' = [frame EXCEPT !.pc = "i++", !.seen = @ \cup {item}]
    /\ UNCHANGED <<recv, copy, last, res, setVars>>

\* The i++ of the for statement, back to the test i < length.
IncrementRemoveIf ==
    /\ frame.pc = "i++"
    /\ frame' = [frame EXCEPT !.pc = "loop", !.i = @ + 1]
    /\ UNCHANGED <<heap, recv, copy, last, res, setVars>>

ReturnRemoveIf ==
    /\ frame.pc = "loop"
    /\ frame.i >= frame.length
    /\ res' = [ret |-> List_fromArray(frame.removed), error |-> FALSE]
    /\ frame' = [frame EXCEPT !.pc = "done"]
    /\ UNCHANGED <<heap, recv, copy, last, setVars>>

RemoveIfInit ==
    /\ SetIdle
    /\ \E array \in BoundedSeq(ItemValues \cup {Undefined}, MaxLen) :
           heap = [EmptyHeap EXCEPT ![1] = array]
    /\ recv = [kind |-> "List", items |-> 1]
    /\ copy = NoObject
    /\ last = NoCall
    /\ res = NoResult
    /\ frame = NoFrame

RemoveIfNext ==
    \/ CallRemoveIf(RemovePredicates)
    \/ StepRemoveIf
    \/ IncrementRemoveIf
    \/ ReturnRemoveIf

SpecRemoveIf == RemoveIfInit /\ [][RemoveIfNext]_vars

\* The call runs on: a loop turn or a return that can be taken is taken.
SpecRemoveIfRuns ==
    /\ RemoveIfInit /\ [][RemoveIfNext]_vars
    /\ WF_vars(StepRemoveIf) /\ WF_vars(IncrementRemoveIf) /\ WF_vars(ReturnRemoveIf)

(***************************************************************************)
(* The receiver and the collection returned from it, both in use: every    *)
(* traversal method on the receiver, every change on either of the two.    *)
(***************************************************************************)
Both == {"recv", "copy"}

HeapNext ==
    \/ DoEach
    \/ DoMap({"omitOdd"})
    \/ DoFilter({"isEven"})
    \/ DoFold
    \/ DoPartition({"isEven"})
    \/ DoGrouped({2})
    \/ DoDrop({1})
    \/ DoDropRight({1})
    \/ DoDropWhile({"lessThan2"})
    \/ DoTake({1})
    \/ DoTakeRight({1})
    \/ DoTakeWhile({"lessThan2"})
    \/ DoSlice({1})
    \/ DoSorted({DefaultOptions})
    \/ DoReverse
    \/ DoClone
    \/ DoToList
    \/ DoToArray
    \/ DoAdd(Both, ItemValues)
    \/ DoAddAt(Both, ItemValues, {0})
    \/ DoUpdate(Both, ItemValues, {0})
    \/ DoRemoveAt(Both, {0})
    \/ DoRemoveIf(Both, {"isEven"})
    \/ DoRemoveAll(Both)
    \/ DoSort(Both, {"descending"})

SpecHeap == IterInit /\ [][HeapNext]_vars

(***************************************************************************)
(* sorted() on receivers of strings, of missing values and of objects      *)
(* carrying them in their key property, under every option.                *)
(***************************************************************************)
SortKeys == {Str(<<97>>), Str(<<65>>), Str(<<98>>), EmptyString, Null, Undefined}

\* An array of objects, each an object of its own.
Objects(keys) == [i \in 1..Len(keys) |-> Obj(i, keys[i])]

SortInputs ==
    LET keys == BoundedSeq(SortKeys, MaxLen)
    IN keys \cup {Objects(k) : k \in keys}

SortOptions ==
    {[by |-> b, localeCompare |-> FALSE, ignoreCase |-> c, reverse |-> r] :
        b \in {"none", "key"}, c \in BOOLEAN, r \in BOOLEAN}

SortedInit ==
    /\ SetIdle
    /\ \E array \in SortInputs : heap = [EmptyHeap EXCEPT ![1] = array]
    /\ recv \in {[kind |-> k, items |-> 1] : k \in Kinds}
    /\ copy = NoObject
    /\ last = NoCall
    /\ res = NoResult
    /\ frame = NoFrame

SortedNext == DoSorted(SortOptions)

SpecSorted == SortedInit /\ [][SortedNext]_vars

(***************************************************************************)
(* Properties of the traversal methods                                     *)
(***************************************************************************)
\* C6: map(fn) returns a collection of the receiver's kind whose items are, in
\* order, fn(item) for exactly the items where fn did not return the omit
\* sentinel; no value other than the sentinel itself is dropped.
C6_MapDropsOnlySentinel ==
    last.op = "map" =>
        LET all == [i \in 1..Len(Self.items) |-> Invoke(last.fn, Self.items[i], Undefined)]
        IN /\ res.kind = recv.kind
           /\ res.items = SelectSeq(all, LAMBDA v : ~StrictEquals(v, NOT_MAPPED))

\* C7: drop, dropRight, take and takeRight behave as if called with
\* n' = max(0, min(n, size)): take(n) is the first n' items, takeRight(n) the
\* last n', drop(n) all but the first n', dropRight(n) all but the last n'.
C7_DropTakeClamp ==
    last.op \in {"drop", "dropRight", "take", "takeRight"} =>
        LET items == Self.items
            s == Len(items)
            n == Max(0, Min(last.n, s))
        IN /\ res.kind = recv.kind
           /\ res.items = CASE last.op = "take"      -> SubSeq(items, 1, n)
                            [] last.op = "takeRight" -> SubSeq(items, s - n + 1, s)
                            [] last.op = "drop"      -> SubSeq(items, n + 1, s)
                            [] last.op = "dropRight" -> SubSeq(items, 1, s - n)

\* The items of the chunks, one chunk after the other.
RECURSIVE Flatten(_)
Flatten(chunks) ==
    IF chunks = <<>> THEN <<>> ELSE Head(chunks).items \o Flatten(Tail(chunks))

\* grouped returned a List of chunks of the receiver's kind which, one after
\* the other, give the receiver's items, none of them empty.
ChunksOfReceiver ==
    /\ res.kind = "List"
    /\ \A c \in 1..Len(res.items) :
          res.items[c].kind = recv.kind /\ Len(res.items[c].items) >= 1
    /\ Flatten(res.items) = Self.items

\* Every chunk has at most size items and every chunk but the last exactly size.
ChunksOfSize(size) ==
    \A c \in 1..Len(res.items) :
        /\ Len(res.items[c].items) <= size
        /\ c < Len(res.items) => Len(res.items[c].items) = size

\* C8, as claimed: for every integer size, grouped(size) returns consecutive
\* non-empty chunks of the receiver's kind which concatenate to the receiver's
\* items, each of at most size items and all but the last of exactly size.
C8_GroupedAnySize ==
    last.op = "grouped" => ChunksOfReceiver /\ ChunksOfSize(last.n)

\* C8, amended: the same for every size >= 1; for size <= 0 a non-empty
\* receiver comes back as one chunk holding all of its items.
C8_GroupedPositiveSize ==
    last.op = "grouped" =>
        /\ ChunksOfReceiver
        /\ last.n >= 1 => ChunksOfSize(last.n)
        /\ last.n <= 0 => Len(res.items) = Min(1, Len(Self.items))

\* grouped(2) of three items: a full chunk and a shorter last one.
C8_Witness ==
    /\ last.op = "grouped"
    /\ last.n = 2
    /\ Len(Self.items) = 3
    /\ Len(res.items) = 2
    /\ Len(res.items[2].items) = 1

(***************************************************************************)
(* Properties of sorted                                                    *)
(***************************************************************************)
\* The value sorted() compares for an item: its sort value, in upper case when
\* ignoreCase is set.
ComparedValue(item, o) ==
    LET value == SortValue(item, o)
    IN IF o.ignoreCase /\ value.t = "str" THEN toUpperCase(value) ELSE value

Comparable(item, o) == ~IsMissing(SortValue(item, o))

\* The sort values of the entries of an array.
SortValues(array, o) == [k \in 1..Len(array) |-> SortValue(array[k], o)]

\* C4: with reverse set or not, the items whose sort value is null, undefined
\* or the empty string come after all comparable items, in their original
\* relative order; reverse:true reverses the comparable prefix only.  (The
\* trailing entries are told by their sort values, which an entry has whether
\* it is the item or the value extracted from it.)
C4_MissingStayLast ==
    last.op = "sorted" =>
        LET o == last.item
            items == Self.items
            nc == Len(SelectSeq(items, LAMBDA x : Comparable(x, o)))
            plain == Iterable_sorted(Self, [o EXCEPT !.reverse = FALSE]).items
        IN /\ Len(res.items) = Len(items)
           /\ \A k \in 1..nc : Comparable(res.items[k], o)
           /\ SortValues(SubSeq(res.items, nc + 1, Len(items)), o)
                 = SortValues(SelectSeq(items, LAMBDA x : ~Comparable(x, o)), o)
           /\ SubSeq(res.items, 1, nc)
                 = IF o.reverse THEN ArrayReverse(SubSeq(plain, 1, nc))
                   ELSE SubSeq(plain, 1, nc)

\* C5: sorted is stable under every by, ignoreCase and reverse: the items with
\* one and the same sort value that is not missing are in the result in the
\* order they have in the receiver.
C5_SortedStable ==
    last.op = "sorted" =>
        LET o == last.item
            items == Self.items
        IN \A i \in 1..Len(items) :
              Comparable(items[i], o) =>
                 LET same(x) == /\ Comparable(x, o)
                                /\ ComparedValue(x, o) = ComparedValue(items[i], o)
                 IN SelectSeq(res.items, same) = SelectSeq(items, same)

(***************************************************************************)
(* Properties of the receiver and its copies                               *)
(***************************************************************************)
TraversalOps ==
    {"each", "map", "filter", "fold", "partition", "grouped", "drop", "dropRight",
     "take", "takeRight", "dropWhile", "takeWhile", "reverse", "slice", "sorted",
     "clone", "toList", "toArray"}

CopyOps == {"clone", "reverse", "toList", "toArray"}

MutationOps == {"add", "addAt", "update", "removeAt", "removeIf", "removeAll", "sort"}

\* C9: no traversal method changes the receiver's items; the collection that
\* clone, reverse, toList or toArray returns has an items array of its own, so
\* a later change of the receiver or of the copy leaves the other's items alone.
FrameStep ==
    /\ last'.op \in TraversalOps =>
          recv' = recv /\ heap'[recv.items] = heap[recv.items]
    /\ last'.op \in CopyOps => copy'.items # recv.items
    /\ (last'.op \in MutationOps /\ last'.who = "recv" /\ copy.kind # "none") =>
          copy' = copy /\ heap'[copy.items] = heap[copy.items]
    /\ (last'.op \in MutationOps /\ last'.who = "copy") =>
          recv' = recv /\ heap'[recv.items] = heap[recv.items]

C9_TraversalsFrameAndCopies == [][FrameStep]_vars

\* The copy of a List was changed and now differs from the receiver.
C9_Witness ==
    /\ last.op \in MutationOps
    /\ last.who = "copy"
    /\ recv.kind = "List"
    /\ copy.kind = "List"
    /\ copy.items # recv.items
    /\ Len(heap[recv.items]) = MaxLen
    /\ heap[copy.items] # heap[recv.items]

(***************************************************************************)
(* Properties of List                                                      *)
(***************************************************************************)
\* C10: update(i, item) succeeds only for 0 <= i <= size()-1, replacing the
\* item at i and nothing else; for i < 0 or i >= size() it fails with a range
\* error and leaves the list unchanged, so update never changes size().
UpdateStep ==
    last'.op = "update" =>
        LET items == heap[recv.items]
            after == heap'[recv.items]
            i == last'.n
        IN /\ Len(after) = Len(items)
           /\ IF 0 <= i /\ i <= Len(items) - 1
              THEN ~res'.error /\ after = [items EXCEPT ![i + 1] = last'.item]
              ELSE res'.error /\ after = items

C10_UpdateRange == [][UpdateStep]_vars

\* C11: addAt(item, i) with 0 <= i <= size() inserts item at position i,
\* shifts the former items i..size()-1 up by one in their order and makes
\* size() one larger (i = size() appends); with i < 0 or i > size() it fails
\* with a range error and leaves the items as they were.
AddAtStep ==
    last'.op = "addAt" =>
        LET items == heap[recv.items]
            after == heap'[recv.items]
            s == Len(items)
            i == last'.n
        IN IF 0 <= i /\ i <= s
           THEN /\ ~res'.error
                /\ Len(after) = s + 1
                /\ after[i + 1] = last'.item
                /\ \A k \in 1..i : after[k] = items[k]
                /\ \A k \in (i + 1)..s : after[k + 1] = items[k]
           ELSE res'.error /\ after = items

C11_AddAtRange == [][AddAtStep]_vars

\* An item was inserted between two others.
C11_Witness ==
    /\ last.op = "addAt"
    /\ last.who = "recv"
    /\ ~res.error
    /\ last.n > 0
    /\ last.n < Len(heap[recv.items]) - 1
    /\ heap[recv.items][last.n + 1] = last.item

\* The sort function an insert call compares with.
SortFunctionOf(call) == IF call.fn = "none" THEN "_defaultSortFunction" ELSE call.fn

Range(array) == {array[k] : k \in 1..Len(array)}

\* No item is above the item that follows it.
NonDecreasing(items, f) ==
    \A k \in 1..(Len(items) - 1) : Compare(f, items[k], items[k + 1]) <= 0

\* No item is above any item that comes later.
Ordered(items, f) ==
    \A j \in 1..Len(items) : \A k \in (j + 1)..Len(items) :
        Compare(f, items[j], items[k]) <= 0

\* f compares every two values of S and does so transitively.
TotalPreorder(f, S) ==
    /\ \A a \in S, b \in S : Compare(f, a, b) <= 0 \/ Compare(f, b, a) <= 0
    /\ \A a \in S, b \in S, c \in S :
           Compare(f, a, b) <= 0 /\ Compare(f, b, c) <= 0 => Compare(f, a, c) <= 0

\* C12: on a List that is non-decreasing under C (the empty List is), every
\* insert(item, C) leaves the List non-decreasing under C, one item longer,
\* and holding the former items in their order plus the inserted one; where
\* C is a total preorder on the items, no item is above any later item.
InsertStep ==
    last'.op = "insert" =>
        LET C == SortFunctionOf(last')
            items == heap[recv.items]
            after == heap'[recv.items]
        IN NonDecreasing(items, C) =>
               /\ ~res'.error
               /\ NonDecreasing(after, C)
               /\ Len(after) = Len(items) + 1
               /\ \E k \in 0..Len(items) : after = ArraySpliceIn(items, k, last'.item)
               /\ TotalPreorder(C, Range(after)) => Ordered(after, C)

C12_InsertKeepsOrder == [][InsertStep]_vars

\* A full List kept in order, its last insert placed after a smaller item.
C12_Witness ==
    LET C == SortFunctionOf(last)
        items == heap[recv.items]
    IN /\ last.op = "insert"
       /\ Len(items) = MaxLen
       /\ Ordered(items, C)
       /\ TotalPreorder(C, Range(items))
       /\ \E k \in 2..Len(items) :
              items[k] = last.item /\ Compare(C, items[k - 1], items[k]) < 0

\* The number of items of the List that the sort function puts below /
\* not above the item.
CountBelow(items, item, f) ==
    Cardinality({k \in 1..Len(items) : Compare(f, item, items[k]) > 0})

CountNotAbove(items, item, f) ==
    Cardinality({k \in 1..Len(items) : Compare(f, item, items[k]) >= 0})

\* C14: insert(item, C) on a List ordered by C places the item after all
\* the items that are below it or equal to it under C, so that equal items
\* stay in the order in which they were inserted.
InsertAfterEqualsStep ==
    last'.op = "insert" =>
        LET C == SortFunctionOf(last')
            items == heap[recv.items]
            after == heap'[recv.items]
        IN NonDecreasing(items, C) /\ TotalPreorder(C, Range(after)) =>
               after = ArraySpliceIn(items, CountNotAbove(items, last'.item, C), last'.item)

C14_InsertAfterEquals == [][InsertAfterEqualsStep]_vars

\* C14, as the code has it: insert(item, C) on a List ordered by C places
\* the item after the items below it and before all the items equal to it
\* under C, so that equal items come in the reverse of their insertion order.
InsertBeforeEqualsStep ==
    last'.op = "insert" =>
        LET C == SortFunctionOf(last')
            items == heap[recv.items]
            after == heap'[recv.items]
        IN NonDecreasing(items, C) /\ TotalPreorder(C, Range(after)) =>
               after = ArraySpliceIn(items, CountBelow(items, last'.item, C), last'.item)

C14_InsertBeforeEquals == [][InsertBeforeEqualsStep]_vars

\* The inserted item stands before another item equal to it under C.
C14_Witness ==
    LET C == SortFunctionOf(last)
        items == heap[recv.items]
    IN /\ last.op = "insert"
       /\ Ordered(items, C)
       /\ TotalPreorder(C, Range(items))
       /\ \E j \in 1..Len(items) : \E k \in (j + 1)..Len(items) :
              /\ items[j] = last.item
              /\ items[k] # last.item
              /\ Compare(C, items[j], items[k]) = 0
              /\ \A i \in 1..(j - 1) : Compare(C, items[i], items[j]) < 0

\* C13: removeIf(p) returns a new List of exactly the items of the List
\* that satisfy p, in their order, and leaves in the List exactly the items
\* that do not, in their order; p is called only with items that were in
\* the List.
C13_RemoveIfExact ==
    frame.pc = "done" =>
        LET p(x) == Invoke(frame.predicate, x, Undefined)
            notp(x) == ~p(x)
        IN /\ res.ret.kind = "List"
           /\ res.ret.items = SelectSeq(frame.entry, p)
           /\ heap[recv.items] = SelectSeq(frame.entry, notp)
           /\ frame.seen \subseteq Range(frame.entry)

\* C15: every removeIf call returns, also when the predicate is true of
\* undefined and items have been removed.
C15_RemoveIfReturns == (frame.pc \in {"loop", "i++"}) ~> (frame.pc = "done")

\* The number of places of the array that hold x.
Occurrences(array, x) == Cardinality({k \in 1..Len(array) : array[k] = x})

\* C16: sorted returns a permutation of the receiver's items, under every by,
\* ignoreCase and reverse: as many items, and each item of the receiver
\* (the item, not its sort value) as many times as the receiver holds it.
C16_SortedPermutation ==
    last.op = "sorted" =>
        LET items == Self.items
        IN /\ Len(res.items) = Len(items)
           /\ \A x \in Range(items) \cup Range(res.items) :
                  Occurrences(res.items, x) = Occurrences(items, x)

====
